---- MODULE Spec2Model ----
(***************************************************************************)
(* Model of script/sort.py: the filter-list optimiser.  One invocation of  *)
(* main reads the file named on the command line, filters, de-duplicates   *)
(* and sorts its rules, and writes them back under a seven line header.    *)
(* Strings are sequences of one-character strings.                         *)
(***************************************************************************)
EXTENDS Integers, Sequences, FiniteSets, TLC

\* ------------------------------------------------------------------------
\* Bounds of the model
\* ------------------------------------------------------------------------
MaxLines == 3      \* lines in the file before the first invocation
MaxRuns == 2       \* invocations of the script
MaxArgs == 2       \* command line arguments after the script name
MaxRuleLen == 6    \* characters of the line of a one-line file

\* ------------------------------------------------------------------------
\* String helpers (Python str semantics)
\* ------------------------------------------------------------------------
SetMin(S) == CHOOSE x \in S : \A y \in S : x <= y
SetMax(S) == CHOOSE x \in S : \A y \in S : x >= y

Lower == <<"a","b","c","d","e","f","g","h","i","j","k","l","m","n","o","p","q","r","s","t","u","v","w","x","y","z">>
Upper == <<"A","B","C","D","E","F","G","H","I","J","K","L","M","N","O","P","Q","R","S","T","U","V","W","X","Y","Z">>
DigitChars == <<"0","1","2","3","4","5","6","7","8","9">>

IndexIn(seq, c) == CHOOSE i \in 1..Len(seq) : seq[i] = c
InSeq(seq, c) == \E i \in 1..Len(seq) : seq[i] = c

\* Unicode code point of a character: str comparison orders by code point.
CodePoint(c) ==
    CASE c = "\t" -> 9
      [] c = "\n" -> 10
      [] c = " " -> 32
      [] c = "!" -> 33
      [] c = "-" -> 45
      [] c = "." -> 46
      [] c = ":" -> 58
      [] c = "[" -> 91
      [] c = "]" -> 93
      [] c = "^" -> 94
      [] c = "|" -> 124
      [] InSeq(DigitChars, c) -> 47 + IndexIn(DigitChars, c)
      [] InSeq(Upper, c) -> 64 + IndexIn(Upper, c)
      [] InSeq(Lower, c) -> 96 + IndexIn(Lower, c)

\* a < b for str: the first differing character decides, else the length.
StrLess(a, b) ==
    LET n == IF Len(a) < Len(b) THEN Len(a) ELSE Len(b)
        diff == {i \in 1..n : a[i] # b[i]}
    IN  IF diff = {} THEN Len(a) < Len(b)
        ELSE LET k == SetMin(diff) IN CodePoint(a[k]) < CodePoint(b[k])

\* Characters str.strip() removes.
Whitespace == {" ", "\t", "\n"}

\* str.strip()
strip(s) ==
    LET idx == {i \in 1..Len(s) : s[i] \notin Whitespace}
    IN  IF idx = {} THEN <<>> ELSE SubSeq(s, SetMin(idx), SetMax(idx))

\* str.startswith(prefix)
startswith(s, prefix) ==
    /\ Len(s) >= Len(prefix)
    /\ SubSeq(s, 1, Len(prefix)) = prefix

\* str.split(sep): the pieces between the non-overlapping occurrences of
\* sep found scanning left to right.
RECURSIVE SplitFrom(_, _, _, _, _)
SplitFrom(s, sep, i, cur, acc) ==
    IF i > Len(s) THEN Append(acc, cur)
    ELSE IF /\ i + Len(sep) - 1 <= Len(s)
            /\ SubSeq(s, i, i + Len(sep) - 1) = sep
         THEN SplitFrom(s, sep, i + Len(sep), <<>>, Append(acc, cur))
         ELSE SplitFrom(s, sep, i + 1, Append(cur, s[i]), acc)

split(s, sep) == SplitFrom(s, sep, 1, <<>>, <<>>)

\* sep.join(lines)
RECURSIVE join(_, _)
join(sep, ls) ==
    IF ls = <<>> THEN <<>>
    ELSE IF Len(ls) = 1 THEN ls[1]
    ELSE ls[1] \o sep \o join(sep, Tail(ls))

\* str(n) for a non-negative integer
RECURSIVE IntToStr(_)
IntToStr(n) ==
    IF n < 10 THEN <<DigitChars[n + 1]>>
    ELSE IntToStr(n \div 10) \o <<DigitChars[(n % 10) + 1]>>

\* Iterating a text file: each line up to and including its line feed, the
\* last one possibly without.
RECURSIVE FileLines(_)
FileLines(content) ==
    IF content = <<>> THEN <<>>
    ELSE LET nl == {i \in 1..Len(content) : content[i] = "\n"}
         IN  IF nl = {} THEN <<content>>
             ELSE LET k == SetMin(nl)
                  IN  <<SubSeq(content, 1, k)>>
                        \o FileLines(SubSeq(content, k + 1, Len(content)))

\* ------------------------------------------------------------------------
\* The program
\* ------------------------------------------------------------------------
COUNTRY_SUFFIXES == {
    <<"j","p">>, <<"k","r">>, <<"p","l">>, <<"u","k">>, <<"d","e">>, <<"f","r">>, <<"i","t">>, <<"r","u">>,
    <<"e","s">>, <<"c","a">>, <<"a","u">>, <<"c","h">>, <<"s","e">>, <<"b","r">>, <<"z","a">>, <<"i","n">>,
    <<"i","d">>, <<"v","n">>, <<"t","h">>, <<"m","y">>, <<"a","r">>, <<"m","x">>, <<"p","h">>, <<"c","l">>,
    <<"n","z">>, <<"p","t">>, <<"b","e">>, <<"n","o">>, <<"f","i">>, <<"g","r">>, <<"t","r">>, <<"s","a">>,
    <<"a","e">>, <<"h","k">>, <<"s","g">>, <<"t","w">>, <<"d","k">>, <<"i","e">>, <<"c","z">>, <<"h","u">>,
    <<"r","o">>, <<"b","g">>, <<"s","k">>, <<"l","t">>, <<"l","v">>, <<"e","e">>, <<"i","s">>, <<"m","t">>,
    <<"c","y">>, <<"r","s">>, <<"s","i">>, <<"h","r">>, <<"b","a">>, <<"m","k">>, <<"m","e">>, <<"a","l">>,
    <<"g","e">>, <<"a","m">>, <<"a","z">>, <<"b","y">>, <<"k","g">>, <<"k","z">>, <<"m","d">>, <<"t","j">>,
    <<"t","m">>, <<"u","z">>, <<"u","a">>, <<"p","k">>, <<"n","p">>, <<"l","k">>, <<"b","d">>, <<"k","h">>,
    <<"l","a">>, <<"m","m">>, <<"b","t">>, <<"b","n">>, <<"m","n">>, <<"a","f">>, <<"i","r">>, <<"i","q">>,
    <<"j","o">>, <<"l","b">>, <<"o","m">>, <<"q","a">>, <<"k","w">>, <<"b","h">>, <<"y","e">>, <<"s","y">>,
    <<"p","s">>, <<"d","z">>, <<"m","a">>, <<"t","n">>, <<"l","y">>, <<"e","g">>, <<"s","d">>, <<"e","t">>,
    <<"n","g">>, <<"g","h">>, <<"c","i">>, <<"s","n">>, <<"k","e">>, <<"t","z">>, <<"u","g">>, <<"z","m">>,
    <<"z","w">>, <<"m","w">>, <<"b","w">>, <<"n","a">>, <<"s","z">>, <<"l","s">>, <<"m","g">>, <<"m","u">>,
    <<"s","c">>, <<"c","v">>, <<"g","w">>, <<"g","q">>, <<"s","t">>, <<"g","a">>, <<"c","g">>, <<"c","d">>,
    <<"a","o">>, <<"c","m">>, <<"n","e">>, <<"b","f">>, <<"m","l">>, <<"t","d">>, <<"m","r">>, <<"s","l">>,
    <<"l","r">>, <<"g","m">>, <<"g","n">>, <<"b","j">>, <<"t","g">>, <<"b","i">>, <<"r","w">>, <<"s","o">>,
    <<"d","j">>, <<"e","r">>, <<"s","s">>
}

\* [line.strip() for line in f if line.strip()]
read_file(content) ==
    LET raw == FileLines(content)
        stripped == [i \in 1..Len(raw) |-> strip(raw[i])]
    IN  SelectSeq(stripped, LAMBDA l : l # <<>>)

\* Variant of write_file that leaves out the final line feed.
write_file_no_newline(ls) == join(<<"\n">>, ls)

\* "\n".join(lines) + "\n"
write_file(ls) == join(<<"\n">>, ls) \o <<"\n">>

\* The regex anchor $ at position i (the index of the next character):
\* the end of the string, or just before a final line feed.
AtEnd(s, i) ==
    \/ i = Len(s) + 1
    \/ i = Len(s) /\ s[i] = "\n"

\* Variant of suffix_search using re.match: the pattern only at the start.
suffix_match_at_start(line) ==
    /\ 4 <= Len(line)
    /\ line[1] = "."
    /\ <<line[2], line[3]>> \in COUNTRY_SUFFIXES
    /\ line[4] = "^"
    /\ AtEnd(line, 5)

\* Variant of suffix_search whose pattern lacks the leading dot.
suffix_search_no_dot(line) ==
    \E i \in 1..Len(line) :
        /\ i + 2 <= Len(line)
        /\ <<line[i], line[i + 1]>> \in COUNTRY_SUFFIXES
        /\ line[i + 2] = "^"
        /\ AtEnd(line, i + 3)

\* suffix_pattern.search(line): \.(jp|kr|...)\^$ anywhere in the line
suffix_search(line) ==
    \E i \in 1..Len(line) :
        /\ i + 3 <= Len(line)
        /\ line[i] = "."
        /\ <<line[i + 1], line[i + 2]>> \in COUNTRY_SUFFIXES
        /\ line[i + 3] = "^"
        /\ AtEnd(line, i + 4)

\* Variant of rule_match whose pattern lacks the final $.
rule_match_no_end(line) ==
    /\ Len(line) >= 2
    /\ line[1] = "|"
    /\ line[2] = "|"
    /\ \E k \in 1..Len(line) :
          /\ 3 + k <= Len(line)
          /\ \A j \in 3..(2 + k) : line[j] # "^"
          /\ line[3 + k] = "^"

\* re.match(r"^\|\|[^\^]+?\^$", line)
rule_match(line) ==
    /\ Len(line) >= 2
    /\ line[1] = "|"
    /\ line[2] = "|"
    /\ \E k \in 1..Len(line) :
          /\ 3 + k <= Len(line)
          /\ \A j \in 3..(2 + k) : line[j] # "^"
          /\ line[3 + k] = "^"
          /\ AtEnd(line, 4 + k)

\* The body of the loop of filter_rules: is the line appended?
keeps(line) ==
    IF startswith(line, <<"!">>) \/ startswith(line, <<"[">>) THEN FALSE
    ELSE IF suffix_search(line) THEN FALSE
    ELSE rule_match(line)

filter_rules(ls) == SelectSeq(ls, keeps)

RECURSIVE DedupFrom(_, _, _)
DedupFrom(ls, seen, unique_lines) ==
    IF ls = <<>> THEN unique_lines
    ELSE IF Head(ls) \notin seen
         THEN DedupFrom(Tail(ls), seen \cup {Head(ls)},
                        Append(unique_lines, Head(ls)))
         ELSE DedupFrom(Tail(ls), seen, unique_lines)

\* Variant of remove_duplicates that never adds to seen.
remove_duplicates_unseen(ls) == SelectSeq(ls, LAMBDA l : l \notin {})

remove_duplicates(ls) == DedupFrom(ls, {}, <<>>)

\* Variant of extract_domain taking piece [1] of the split instead of [-1].
extract_domain_first(rule) ==
    LET pieces == split(rule, <<"|", "|">>)
    IN  split(pieces[IF Len(pieces) > 1 THEN 2 ELSE 1], <<"^">>)[1]

\* rule.split("||")[-1].split("^")[0]
extract_domain(rule) ==
    LET pieces == split(rule, <<"|", "|">>)
    IN  split(pieces[Len(pieces)], <<"^">>)[1]

\* Variant of sorting_key taking the first label, parts[0].
sorting_key_first_label(rule) ==
    LET domain == extract_domain(rule)
        parts == split(domain, <<".">>)
    IN  <<parts[1], domain>>

sorting_key(rule) ==
    LET domain == extract_domain(rule)
        parts == split(domain, <<".">>)
        second_level_domain ==
            IF Len(parts) > 1 THEN parts[Len(parts) - 1] ELSE parts[1]
    IN  <<second_level_domain, domain>>

\* Tuple comparison of two keys
KeyLess(k1, k2) ==
    \/ StrLess(k1[1], k2[1])
    \/ k1[1] = k2[1] /\ StrLess(k1[2], k2[2])

\* Variant of the insertion that puts an element before its equals.
InsertBeforeEqual(sorted, x) ==
    LET later == {i \in 1..Len(sorted) :
                     ~KeyLess(sorting_key(sorted[i]), sorting_key(x))}
        pos == IF later = {} THEN Len(sorted) + 1 ELSE SetMin(later)
    IN  SubSeq(sorted, 1, pos - 1) \o <<x>> \o SubSeq(sorted, pos, Len(sorted))

\* sorted() is stable: an element goes after every element whose key is not
\* greater than its own.
InsertByKey(sorted, x) ==
    LET later == {i \in 1..Len(sorted) :
                     KeyLess(sorting_key(x), sorting_key(sorted[i]))}
        pos == IF later = {} THEN Len(sorted) + 1 ELSE SetMin(later)
    IN  SubSeq(sorted, 1, pos - 1) \o <<x>> \o SubSeq(sorted, pos, Len(sorted))

RECURSIVE SortedFrom(_, _)
SortedFrom(ls, acc) ==
    IF ls = <<>> THEN acc
    ELSE SortedFrom(Tail(ls), InsertByKey(acc, Head(ls)))

sort_rules(ls) == SortedFrom(ls, <<>>)

\* The wall clock counts the seconds of one minute; strftime renders it.
ClockDate == <<"2","0","2","5","-","0","1","-","0","1">>
ClockHourMinute == <<"0","0",":","0","0">>
TwoDigits(n) == <<DigitChars[(n \div 10) + 1], DigitChars[(n % 10) + 1]>>

\* strftime('%Y-%m-%d %H:%M:%S')
FormatLastModified(t) ==
    ClockDate \o <<" ">> \o ClockHourMinute \o <<":">> \o TwoDigits(t)

\* strftime('%Y%m%d%H%M%S')
FormatVersion(t) ==
    SelectSeq(ClockDate \o ClockHourMinute, LAMBDA c : InSeq(DigitChars, c))
        \o TwoDigits(t)

\* add_header; now is the first reading of the clock, version the second.
add_header(file_name, rule_count, now, version) ==
    << <<"!"," ","T","i","t","l","e",":"," ","O","p","t","i","m","i","z","e","d"," ","A","d","b","l","o","c","k"," ","R","u","l","e","s">>,
       <<"!"," ","D","e","s","c","r","i","p","t","i","o","n",":"," ","T","h","i","s"," ","i","s"," ","a","n"," ","o","p","t","i","m","i","z","e","d"," ","a","d","b","l","o","c","k"," ","f","i","l","t","e","r"," ","l","i","s","t",".">>,
       <<"!"," ","S","o","u","r","c","e"," ","f","i","l","e",":"," ">> \o file_name,
       <<"!"," ","V","e","r","s","i","o","n",":"," ">> \o FormatVersion(version),
       <<"!"," ","L","a","s","t"," ","M","o","d","i","f","i","e","d",":"," ">> \o FormatLastModified(now),
       <<"!"," ","T","o","t","a","l"," ","R","u","l","e","s",":"," ">> \o IntToStr(rule_count),
       <<"!">> >>

\* ------------------------------------------------------------------------
\* Inputs
\* ------------------------------------------------------------------------
\* The path given on the command line.
FileName == <<"r","u","l","e","s",".","t","x","t">>

\* Lines a file may hold before the first run (without the line feed).
InputLines == {
    <<"|","|","b",".","c","o","m","^">>,
    <<" ","|","|","a",".","b",".","c","o","m","^","\t">>,
    <<"|","|","a","|","|","b",".","c","o","m","^">>,
    <<"|","|","|","z",".","a",".","c","o","m","^">>,
    <<"|","|","j","p","^">>,
    <<"|","|","a",".","j","p","^">>,
    <<"|","|","a","^","b">>,
    <<"|","|","^">>,
    <<"[","x","]">>,
    <<" ">>
}

RECURSIVE SeqsUpTo(_, _)
SeqsUpTo(S, n) ==
    IF n = 0 THEN {<<>>}
    ELSE LET shorter == SeqsUpTo(S, n - 1)
         IN  shorter \cup {Append(s, x) : s \in {q \in shorter : Len(q) = n - 1}, x \in S}

\* File contents: up to MaxLines lines, the last with or without line feed.
InputContents ==
    {join(<<"\n">>, ls) \o end :
        ls \in SeqsUpTo(InputLines, MaxLines), end \in {<<>>, <<"\n">>}}

\* ------------------------------------------------------------------------
\* State
\* ------------------------------------------------------------------------
VARIABLES
    pc,              \* position of the running invocation in main
    argc,            \* len(sys.argv)
    fs,              \* the file at FileName
    lines,           \* main: lines
    filtered_lines,  \* main: filtered_lines
    unique_lines,    \* main: unique_lines
    sorted_rules,    \* main: sorted_rules
    header,          \* main: header
    stdout,          \* what this invocation printed
    exit_status,     \* exit status of the invocation, -1 while it runs
    clock,           \* wall clock
    run,             \* number of the invocation
    read_from,       \* the file content this invocation read
    fs_at_start,     \* the file when this invocation started
    io,              \* open and close calls of this invocation, in order
    history          \* lines written by the successful invocations so far

vars == <<pc, argc, fs, lines, filtered_lines, unique_lines, sorted_rules,
          header, stdout, exit_status, clock, run, read_from, fs_at_start,
          io, history>>

locals == <<lines, filtered_lines, unique_lines, sorted_rules, header>>

Missing == [exists |-> FALSE, readable |-> FALSE, writable |-> FALSE,
            content |-> <<>>]

Files ==
    {Missing} \cup
    [exists : {TRUE}, readable : BOOLEAN, writable : BOOLEAN,
     content : InputContents]

\* A file the first invocation will not rewrite holds at most one line.
ShortContents == {c \in InputContents : Len(FileLines(c)) <= 1}

Init ==
    /\ pc = "start"
    /\ argc \in 1..(MaxArgs + 1)
    /\ fs \in Files
    /\ \/ argc = 2 /\ fs.readable /\ fs.writable
       \/ fs.content \in ShortContents
    /\ lines = <<>>
    /\ filtered_lines = <<>>
    /\ unique_lines = <<>>
    /\ sorted_rules = <<>>
    /\ header = <<>>
    /\ stdout = <<>>
    /\ exit_status = -1
    /\ clock = 0
    /\ run = 1
    /\ read_from = <<>>
    /\ fs_at_start = fs
    /\ io = <<>>
    /\ history = <<>>

\* Variant of the argument check that only rejects a missing argument.
wrong_argc_missing(n) == n < 2

\* The condition of main's first statement: len(sys.argv) != 2
wrong_argc(n) == n # 2

\* if len(sys.argv) != 2: print usage; sys.exit(1)
Usage ==
    /\ pc = "start"
    /\ wrong_argc(argc)
    /\ stdout' = Append(stdout, [msg |-> "usage"])
    /\ exit_status' = 1
    /\ pc' = "exit"
    /\ UNCHANGED <<io, argc, fs, locals, clock, run, read_from, fs_at_start, history>>

\* lines = read_file(file_name)
ReadFile ==
    /\ pc = "start"
    /\ ~wrong_argc(argc)
    /\ fs.exists /\ fs.readable
    /\ lines' = read_file(fs.content)
    /\ read_from' = fs.content
    /\ pc' = "filter"
    /\ io' = io \o <<"open r", "close r">>
    /\ UNCHANGED <<argc, fs, filtered_lines, unique_lines, sorted_rules,
                   header, stdout, exit_status, clock, run, fs_at_start, history>>

\* Variant of the failed read that carries on with no lines.
ReadFailSwallowed ==
    /\ pc = "start"
    /\ ~wrong_argc(argc)
    /\ ~(fs.exists /\ fs.readable)
    /\ lines' = <<>>
    /\ io' = Append(io, "open r")
    /\ pc' = "filter"
    /\ UNCHANGED <<argc, fs, filtered_lines, unique_lines, sorted_rules,
                   header, stdout, exit_status, clock, run, read_from,
                   fs_at_start, history>>

\* open(file_name, 'r') raises: the exception ends the process.
ReadFail ==
    /\ pc = "start"
    /\ ~wrong_argc(argc)
    /\ ~(fs.exists /\ fs.readable)
    /\ exit_status' = 1
    /\ pc' = "exit"
    /\ io' = Append(io, "open r")
    /\ UNCHANGED <<argc, fs, locals, stdout, clock, run, read_from,
                   fs_at_start, history>>

\* filtered_lines = filter_rules(lines)
FilterRules ==
    /\ pc = "filter"
    /\ filtered_lines' = filter_rules(lines)
    /\ pc' = "dedup"
    /\ UNCHANGED <<io, argc, fs, lines, unique_lines, sorted_rules, header,
                   stdout, exit_status, clock, run, read_from, fs_at_start, history>>

\* unique_lines = remove_duplicates(filtered_lines)
RemoveDuplicates ==
    /\ pc = "dedup"
    /\ unique_lines' = remove_duplicates(filtered_lines)
    /\ pc' = "sort"
    /\ UNCHANGED <<io, argc, fs, lines, filtered_lines, sorted_rules, header,
                   stdout, exit_status, clock, run, read_from, fs_at_start, history>>

\* sorted_rules = sort_rules(unique_lines)
SortRules ==
    /\ pc = "sort"
    /\ sorted_rules' = sort_rules(unique_lines)
    /\ pc' = "header"
    /\ UNCHANGED <<io, argc, fs, lines, filtered_lines, unique_lines, header,
                   stdout, exit_status, clock, run, read_from, fs_at_start, history>>

\* header = add_header(file_name, len(sorted_rules)); the clock is read
\* twice and may have advanced at the second reading.
AddHeader ==
    /\ pc = "header"
    /\ \E d \in 0..1 :
          /\ header' = add_header(FileName, Len(sorted_rules), clock, clock + d)
          /\ clock' = clock + d
    /\ pc' = "write"
    /\ UNCHANGED <<io, argc, fs, lines, filtered_lines, unique_lines,
                   sorted_rules, stdout, exit_status, run, read_from,
                   fs_at_start, history>>

\* write_file(file_name, header + sorted_rules)
WriteFile ==
    /\ pc = "write"
    /\ fs.writable
    /\ fs' = [fs EXCEPT !.content = write_file(header \o sorted_rules)]
    /\ history' = Append(history, header \o sorted_rules)
    /\ pc' = "print"
    /\ io' = io \o <<"open w", "close w">>
    /\ UNCHANGED <<argc, locals, stdout, exit_status, clock, run, read_from,
                   fs_at_start>>

\* open(file_name, 'w') raises: the exception ends the process.
WriteFail ==
    /\ pc = "write"
    /\ ~fs.writable
    /\ exit_status' = 1
    /\ pc' = "exit"
    /\ io' = Append(io, "open w")
    /\ UNCHANGED <<argc, fs, locals, stdout, clock, run, read_from,
                   fs_at_start, history>>

\* print the summary; main returns and the process exits with status 0.
PrintSummary ==
    /\ pc = "print"
    /\ stdout' = Append(stdout, [msg |-> "summary", file_name |-> FileName,
                                 count |-> Len(sorted_rules)])
    /\ exit_status' = 0
    /\ pc' = "exit"
    /\ UNCHANGED <<io, argc, fs, locals, clock, run, read_from, fs_at_start, history>>

\* The script is started again on the same path.
Invoke ==
    /\ pc = "exit"
    /\ run < MaxRuns
    /\ run' = run + 1
    /\ argc' \in 1..(MaxArgs + 1)
    /\ pc' = "start"
    /\ lines' = <<>>
    /\ filtered_lines' = <<>>
    /\ unique_lines' = <<>>
    /\ sorted_rules' = <<>>
    /\ header' = <<>>
    /\ stdout' = <<>>
    /\ exit_status' = -1
    /\ read_from' = <<>>
    /\ fs_at_start' = fs
    /\ io' = <<>>
    /\ UNCHANGED <<fs, clock, history>>

Next ==
    \/ Usage
    \/ ReadFile
    \/ ReadFail
    \/ FilterRules
    \/ RemoveDuplicates
    \/ SortRules
    \/ AddHeader
    \/ WriteFile
    \/ WriteFail
    \/ PrintSummary
    \/ Invoke

Spec == Init /\ [][Next]_vars

\* ------------------------------------------------------------------------
\* Runs on every one-line file over a small alphabet
\* ------------------------------------------------------------------------
RuleAlphabet == {"|", "^", ".", "a"}

OneLineContents ==
    {l \o <<"\n">> : l \in SeqsUpTo(RuleAlphabet, MaxRuleLen) \ {<<>>}}

InitLine ==
    /\ pc = "start"
    /\ argc = 2
    /\ fs \in [exists : {TRUE}, readable : {TRUE}, writable : {TRUE},
                content : OneLineContents]
    /\ lines = <<>>
    /\ filtered_lines = <<>>
    /\ unique_lines = <<>>
    /\ sorted_rules = <<>>
    /\ header = <<>>
    /\ stdout = <<>>
    /\ exit_status = -1
    /\ clock = 0
    /\ run = 1
    /\ read_from = <<>>
    /\ fs_at_start = fs
    /\ io = <<>>
    /\ history = <<>>

NextLine ==
    \/ ReadFile
    \/ FilterRules
    \/ RemoveDuplicates
    \/ SortRules
    \/ AddHeader
    \/ WriteFile
    \/ PrintSummary

SpecLine == InitLine /\ [][NextLine]_vars

\* ------------------------------------------------------------------------
\* Vocabulary of the properties
\* ------------------------------------------------------------------------
\* The write of this invocation has completed.
Written == pc = "print" \/ (pc = "exit" /\ exit_status = 0)

\* sort_rules has returned in this invocation.
AfterSort == pc \in {"header", "write", "print"} \/ Written

\* A line without its line feed.
Chop(l) ==
    IF l # <<>> /\ l[Len(l)] = "\n" THEN SubSeq(l, 1, Len(l) - 1) ELSE l

\* The lines of a file content, without their line feeds.
LinesOf(content) ==
    LET raw == FileLines(content) IN [i \in 1..Len(raw) |-> Chop(raw[i])]

HeaderLen == Len(add_header(<<>>, 0, 0, 0))

\* The lines of the file below the header.
RuleLinesWritten ==
    LET all == LinesOf(fs.content) IN SubSeq(all, HeaderLen + 1, Len(all))

Range(seq) == {seq[i] : i \in 1..Len(seq)}

\* ^\|\|[^\^]+\^$ : two pipes, one or more non-carets, one final caret.
IsBlockRule(l) ==
    /\ Len(l) >= 4
    /\ l[1] = "|" /\ l[2] = "|"
    /\ l[Len(l)] = "^"
    /\ \A j \in 3..(Len(l) - 1) : l[j] # "^"

\* s ends in a dot and a country code, followed by tail.
EndsInCountryCode(s, tail) ==
    LET n == Len(s) - Len(tail)
    IN  /\ n >= 3
        /\ SubSeq(s, n + 1, Len(s)) = tail
        /\ s[n - 2] = "."
        /\ <<s[n - 1], s[n]>> \in COUNTRY_SUFFIXES

\* Surrounding whitespace removed, one character at a time.
RECURSIVE Trimmed(_)
Trimmed(s) ==
    IF s = <<>> THEN s
    ELSE IF Head(s) \in Whitespace THEN Trimmed(Tail(s))
    ELSE IF s[Len(s)] \in Whitespace THEN Trimmed(SubSeq(s, 1, Len(s) - 1))
    ELSE s

\* The second-to-last dot-separated label of d, or d when it has one label.
SecondLevelLabel(d) ==
    LET dots == {i \in 1..Len(d) : d[i] = "."}
    IN  IF dots = {} THEN d
        ELSE LET last == SetMax(dots)
                 before == {i \in dots : i < last}
                 from == IF before = {} THEN 1 ELSE SetMax(before) + 1
             IN  SubSeq(d, from, last - 1)

\* Lexicographic order of strings, character by character.
RECURSIVE LexLeq(_, _)
LexLeq(a, b) ==
    IF a = <<>> THEN TRUE
    ELSE IF b = <<>> THEN FALSE
    ELSE IF Head(a) = Head(b) THEN LexLeq(Tail(a), Tail(b))
    ELSE CodePoint(Head(a)) < CodePoint(Head(b))

PairLeq(r1, r2) ==
    LET d1 == extract_domain(r1)
        d2 == extract_domain(r2)
        s1 == SecondLevelLabel(d1)
        s2 == SecondLevelLabel(d2)
    IN  IF s1 = s2 THEN LexLeq(d1, d2) ELSE LexLeq(s1, s2)

SamePair(r1, r2) ==
    /\ extract_domain(r1) = extract_domain(r2)
    /\ SecondLevelLabel(extract_domain(r1)) = SecondLevelLabel(extract_domain(r2))

PosIn(seq, x) == SetMin({i \in 1..Len(seq) : seq[i] = x})

\* ------------------------------------------------------------------------
\* Properties
\* ------------------------------------------------------------------------

\* C1: after a successful run every line of the file below the seven header
\* lines is '||', one or more non-caret characters and one final caret.
C1_RulesMatchPattern ==
    Written => \A i \in 1..Len(RuleLinesWritten) : IsBlockRule(RuleLinesWritten[i])

\* A malformed '||' line was read and rules were written.
C1_Witness ==
    /\ Written
    /\ Len(RuleLinesWritten) >= 2
    /\ \E l \in Range(lines) : startswith(l, <<"|", "|">>) /\ ~IsBlockRule(l)

\* C2: after a successful run no two rule lines of the file are equal.
C2_NoDuplicates ==
    Written =>
        \A i, j \in 1..Len(RuleLinesWritten) :
            RuleLinesWritten[i] = RuleLinesWritten[j] => i = j

\* The filtered lines held a duplicate, and rules were written.
C2_Witness ==
    /\ Written
    /\ Len(RuleLinesWritten) >= 2
    /\ \E i, j \in 1..Len(filtered_lines) :
          i # j /\ filtered_lines[i] = filtered_lines[j]

\* C3: the domain of no written rule ends in a dot and a country code.
C3_NoCountrySuffix ==
    Written =>
        \A i \in 1..Len(RuleLinesWritten) :
            ~EndsInCountryCode(extract_domain(RuleLinesWritten[i]), <<>>)

\* A rule with a country suffix was read, and other rules were written.
C3_Witness ==
    /\ Written
    /\ Len(RuleLinesWritten) >= 1
    /\ \E l \in Range(lines) : IsBlockRule(l) /\ EndsInCountryCode(l, <<"^">>)

\* C4: a run on the file a previous run produced writes the same rule
\* lines in the same order; only the two timestamp lines of the header,
\* Version and Last Modified, may differ.
C4_Idempotent ==
    \A n \in 2..Len(history) :
        /\ Len(history[n]) = Len(history[n - 1])
        /\ \A i \in 1..Len(history[n]) :
              i \notin {4, 5} => history[n][i] = history[n - 1][i]

\* The second run has rewritten a file of several rules, among them two
\* with equal sort keys, under a later timestamp.
C4_Witness ==
    /\ Written
    /\ Len(history) = 2
    /\ Len(RuleLinesWritten) >= 2
    /\ history[2][4] # history[1][4]
    /\ \E i, j \in 1..Len(sorted_rules) :
          i # j /\ SamePair(sorted_rules[i], sorted_rules[j])

\* C5: sort_rules returns its input in ascending order of the pair
\* (second-level label, domain), rules of equal pairs in input order.
C5_StableSort ==
    AfterSort =>
        /\ Len(sorted_rules) = Len(unique_lines)
        /\ Range(sorted_rules) = Range(unique_lines)
        /\ \A i, j \in 1..Len(sorted_rules) :
              i < j =>
                  /\ PairLeq(sorted_rules[i], sorted_rules[j])
                  /\ SamePair(sorted_rules[i], sorted_rules[j]) =>
                        PosIn(unique_lines, sorted_rules[i])
                            < PosIn(unique_lines, sorted_rules[j])

\* The sort moved a rule, and two rules of the result have equal pairs.
C5_Witness ==
    /\ AfterSort
    /\ sorted_rules # unique_lines
    /\ \E i, j \in 1..Len(sorted_rules) :
          i # j /\ SamePair(sorted_rules[i], sorted_rules[j])

\* C6: the written rule lines are exactly the trimmed non-blank lines read
\* that do not start with '!' or '[', are block rules, and do not end in a
\* dot, a country code and the caret.
C6_Membership ==
    Written =>
        Range(RuleLinesWritten) =
            {Trimmed(l) : l \in
                {r \in Range(LinesOf(read_from)) :
                    /\ Trimmed(r) # <<>>
                    /\ Trimmed(r)[1] \notin {"!", "["}
                    /\ IsBlockRule(Trimmed(r))
                    /\ ~EndsInCountryCode(Trimmed(r), <<"^">>)}}

\* '||jp^' was kept while another line read was dropped.
C6_Witness ==
    /\ Written
    /\ <<"|", "|", "j", "p", "^">> \in Range(RuleLinesWritten)
    /\ Len(RuleLinesWritten) < Len(lines)

\* C7: the written file is seven lines starting with '!', then the sorted
\* rules, every line ended by one line feed; the count in the sixth line
\* is the number of rule lines.
C7_FileFormat ==
    Written =>
        LET raw == FileLines(fs.content)
            all == LinesOf(fs.content)
        IN  /\ Len(all) >= 7
            /\ \A i \in 1..Len(all) :
                  /\ raw[i] = all[i] \o <<"\n">>
                  /\ all[i] # <<>>
                  /\ (all[i][1] = "!") <=> (i <= 7)
            /\ all[6] = <<"!"," ","T","o","t","a","l"," ","R","u","l","e","s",":"," ">> \o IntToStr(Len(all) - 7)
            /\ SubSeq(all, 8, Len(all)) = sorted_rules
            /\ (\A i \in 1..Len(LinesOf(read_from)) :
                    Trimmed(LinesOf(read_from)[i]) = <<>>)
                  => all[6] = <<"!"," ","T","o","t","a","l"," ","R","u","l","e","s",":"," ","0">> /\ Len(all) = 7

\* A file of header and several rules was written.
C7_Witness ==
    /\ Written
    /\ Len(sorted_rules) >= 2
    /\ Len(LinesOf(fs.content)) = 7 + Len(sorted_rules)

\* C8: with a wrong number of arguments the invocation prints the usage
\* message, exits with a non-zero status and opens no file.
C8_UsageError ==
    argc # 2 =>
        /\ pc \in {"start", "exit"}
        /\ io = <<>>
        /\ fs = fs_at_start
        /\ pc = "exit" => stdout = <<[msg |-> "usage"]>> /\ exit_status > 0

\* The usage exit happened next to a readable, writable file with content.
C8_Witness ==
    /\ argc = 3
    /\ pc = "exit"
    /\ fs.exists /\ fs.readable /\ fs.writable
    /\ fs.content # <<>>

\* C9: when the read fails the invocation exits non-zero with the file
\* untouched, no header built and no summary printed; in every run the
\* file is opened for writing only after the read has closed it.
C9_ReadBeforeWrite ==
    /\ (pc = "exit" /\ argc = 2
            /\ ~(fs_at_start.exists /\ fs_at_start.readable)) =>
          /\ exit_status > 0
          /\ fs = fs_at_start
          /\ header = <<>>
          /\ stdout = <<>>
          /\ io = <<"open r">>
    /\ \A i \in 1..Len(io) :
          io[i] = "open w" =>
              /\ \E j \in 1..(i - 1) : io[j] = "close r"
              /\ lines = read_file(fs_at_start.content)

\* The read failed on an existing, writable file with content.
C9_Witness ==
    /\ pc = "exit"
    /\ argc = 2
    /\ fs.exists /\ ~fs.readable /\ fs.writable
    /\ fs.content # <<>>
    /\ exit_status = 1

\* Start of the last occurrence of '||' in rule (0 if there is none).
LastMarker(rule) ==
    LET occ == {i \in 1..(Len(rule) - 1) : rule[i] = "|" /\ rule[i + 1] = "|"}
    IN  IF occ = {} THEN 0 ELSE SetMax(occ)

\* The substring after the last '||' of rule and before the next caret.
AfterLastMarker(rule) ==
    LET from == LastMarker(rule) + 2
        carets == {i \in from..Len(rule) : rule[i] = "^"}
        to == IF carets = {} THEN Len(rule) ELSE SetMin(carets) - 1
    IN  SubSeq(rule, from, to)

\* Length of the run of '|' that ends with the last '||' of rule.
LastRunLen(rule) ==
    LET e == LastMarker(rule) + 1
        starts == {i \in 1..e : \A j \in i..e : rule[j] = "|"}
    IN  e - SetMin(starts) + 1

\* C10 as stated: for every accepted rule extract_domain returns the
\* substring after the last '||' and before the caret.
C10_Original ==
    AfterSort =>
        \A i \in 1..Len(sorted_rules) :
            extract_domain(sorted_rules[i]) = AfterLastMarker(sorted_rules[i])

\* C10 amended: extract_domain returns that substring when the run of '|'
\* ending in the last '||' has even length, and that substring preceded by
\* one '|' when the run has odd length.
C10_Amended ==
    AfterSort =>
        \A i \in 1..Len(sorted_rules) :
            LET rule == sorted_rules[i]
            IN  extract_domain(rule) =
                    IF LastRunLen(rule) % 2 = 0 THEN AfterLastMarker(rule)
                    ELSE <<"|">> \o AfterLastMarker(rule)

\* A rule whose last run of pipes has odd length was sorted.
C10_Witness ==
    /\ AfterSort
    /\ \E i \in 1..Len(sorted_rules) :
          /\ LastRunLen(sorted_rules[i]) % 2 = 1
          /\ Len(AfterLastMarker(sorted_rules[i])) >= 1
====
